---- MODULE Spec2Model ----
(***************************************************************************)
(* One SOCKS5 session of merino (src/src/lib.rs, src/src/protocol.rs,      *)
(* src/src/error.rs): the thread spawned by Merino::serve for one accepted *)
(* connection, the two relay threads it may start, and the two sockets.    *)
(*                                                                         *)
(* The client is a byte stream `cin` followed by end-of-file; the server   *)
(* consumes it with read_exact.  `out` is the list of writes that reached  *)
(* the client socket, `failed` the writes that were attempted and failed.  *)
(***************************************************************************)
EXTENDS Integers, Sequences, FiniteSets, TLC

(***************************************************************************)
(* Bounds of the explored input space.                                     *)
(***************************************************************************)
MaxMethods == 2      \* NMETHODS explored in full up to this value
MaxCredLen == 1      \* ULEN / PLEN explored in full up to this value
MaxDomainLen == 1    \* Domain length octet explored up to this value
MaxPayload == 1      \* bytes the client sends after the request
MaxUpstream == 1     \* bytes the upstream peer sends
MaxConns == 3        \* connections that reach the listener
MaxAcceptErrors == 2 \* accept calls that fail

(***************************************************************************)
(* Program constants.                                                      *)
(***************************************************************************)
SOCKS_VERSION == 5
RESERVED == 0

\* protocol.rs ResponseCode discriminants
Success == 0
Failure == 1
RuleFailure == 2
NetworkUnreachable == 3
HostUnreachable == 4
ConnectionRefused == 5
TtlExpired == 6
CommandNotSupported == 7
AddrTypeNotSupported == 8

\* protocol.rs AuthMethods, as tagged values; the payload c is 0 for the
\* variants that carry none.
NoAuth == [tag |-> "NoAuth", c |-> 0]
GssApi == [tag |-> "GssApi", c |-> 0]
UserPass == [tag |-> "UserPass", c |-> 0]
IANAMethod(code) == [tag |-> "IANAMethod", c |-> code]
Private(code) == [tag |-> "Private", c |-> code]
NoMethods == [tag |-> "NoMethods", c |-> 0]

\* AuthMethods::code
AuthCode(m) ==
    CASE m.tag = "NoAuth" -> 0
      [] m.tag = "GssApi" -> 1
      [] m.tag = "UserPass" -> 2
      [] m.tag = "IANAMethod" -> m.c
      [] m.tag = "Private" -> m.c
      [] m.tag = "NoMethods" -> 255

\* impl From<u8> for AuthMethods
AuthMethodsFrom(code) ==
    CASE code = 0 -> NoAuth
      [] code = 1 -> GssApi
      [] code = 2 -> UserPass
      [] code >= 3 /\ code <= 127 -> IANAMethod(code)
      [] code >= 128 /\ code <= 254 -> Private(code)
      [] code = 255 -> NoAuth

\* lib.rs SockCommand::from
SockCommandFrom(n) ==
    CASE n = 1 -> "Connect"
      [] n = 2 -> "Bind"
      [] n = 3 -> "UdpAssosiate"
      [] OTHER -> "None"

\* impl TryFrom<u8> for AddrType ("Err" is the TryFromU8Error result)
AddrTypeTryFrom(n) ==
    CASE n = 1 -> "V4"
      [] n = 3 -> "Domain"
      [] n = 4 -> "V6"
      [] OTHER -> "Err"

(***************************************************************************)
(* String::from_utf8: the bytes are accepted iff they are well-formed     *)
(* UTF-8; the String then holds exactly those bytes.                       *)
(***************************************************************************)
IsCont(b) == b >= 128 /\ b <= 191

RECURSIVE ValidUtf8(_)
ValidUtf8(s) ==
    IF Len(s) = 0 THEN TRUE
    ELSE LET b == s[1] IN
         IF b <= 127 THEN ValidUtf8(Tail(s))
         ELSE IF b >= 194 /\ b <= 223
              THEN Len(s) >= 2 /\ IsCont(s[2]) /\ ValidUtf8(SubSeq(s, 3, Len(s)))
         ELSE IF b >= 224 /\ b <= 239
              THEN /\ Len(s) >= 3 /\ IsCont(s[2]) /\ IsCont(s[3])
                   /\ (b = 224 => s[2] >= 160)
                   /\ (b = 237 => s[2] <= 159)
                   /\ ValidUtf8(SubSeq(s, 4, Len(s)))
         ELSE IF b >= 240 /\ b <= 244
              THEN /\ Len(s) >= 4 /\ IsCont(s[2]) /\ IsCont(s[3]) /\ IsCont(s[4])
                   /\ (b = 240 => s[2] >= 144)
                   /\ (b = 244 => s[2] <= 143)
                   /\ ValidUtf8(SubSeq(s, 5, Len(s)))
         ELSE FALSE

(***************************************************************************)
(* error.rs Error and its Display text.  The text is kept as the set of    *)
(* the substrings "Host", "Network", "ttl" it contains, which is all that  *)
(* Merino::serve looks at.                                                 *)
(***************************************************************************)
Keywords == {"Host", "Network", "ttl"}

NoErr == [kind |-> "None", code |-> 0, diag |-> {}]
IoErr(d) == [kind |-> "Io", code |-> 0, diag |-> d]
Utf8Err == [kind |-> "Utf8", code |-> 0, diag |-> {}]
Socks5Err(c) == [kind |-> "Socks5", code |-> c, diag |-> {}]

\* impl Display for ResponseCode, reduced to the keywords of the text
ResponseCodeText(c) ==
    CASE c = HostUnreachable -> {"Host"}          \* "Host unreachable"
      [] c = NetworkUnreachable -> {"Network"}    \* "Network unreachable"
      [] OTHER -> {}                              \* e.g. "TTL expired"

\* format!("{}", error) for error.rs Error
ErrorText(e) ==
    CASE e.kind = "Io" -> e.diag                  \* "Io Error: {source}"
      [] e.kind = "Utf8" -> {}                    \* "Utf8Parse Error: ..."
      [] e.kind = "Socks5" -> ResponseCodeText(e.code)
      [] OTHER -> {}

\* Merino::serve: the reply code chosen from the error text
ClassifyError(text) ==
    IF "Host" \in text THEN HostUnreachable
    ELSE IF "Network" \in text THEN NetworkUnreachable
    ELSE IF "ttl" \in text THEN TtlExpired
    ELSE Failure


(***************************************************************************)
(* State.                                                                  *)
(***************************************************************************)
VARIABLES
    \* Merino / SOCKClient configuration
    auth_methods,    \* SOCKClient.auth_methods: the enabled methods
    authed_users,    \* SOCKClient.authed_users: the credential table
    host_le,         \* TRUE iff the build target is little-endian
    \* the client socket
    cin,             \* every byte the client sends, followed by end-of-file
    rpos,            \* number of bytes of cin the server has consumed
    out,             \* writes that reached the client socket, in order
    failed,          \* writes to the client socket that returned an error
    c_shut_rd,       \* client socket shut down for reading
    c_shut_wr,       \* client socket shut down for writing
    cbroken,         \* the connection was reset by the peer
    c_handles,       \* live handles of the client socket (stream + clones)
    \* the session thread (closure of Merino::serve)
    pc,              \* position of the session thread
    socks_version,   \* SOCKClient.socks_version
    auth_nmethods,   \* SOCKClient.auth_nmethods
    mi,              \* loop counter of get_avalible_methods
    methods,         \* Vec built by get_avalible_methods
    ulen,            \* auth: header[1]
    plen,            \* auth: plen[0]
    username,        \* auth: username bytes
    password,        \* auth: password bytes
    packet,          \* from_stream: the 4-byte request header
    dlen,            \* from_stream: dlen[0] of a Domain address
    command,         \* from_stream: parsed SockCommand
    addr_type,       \* from_stream: parsed AddrType
    addr,            \* from_stream: DST.ADDR bytes
    port,            \* from_stream: DST.PORT
    sock_addr,       \* handle_client: result of to_socket_addrs
    err,             \* the Err that init returned to the closure
    \* the upstream socket
    connects,        \* number of TcpStream::connect calls made
    t_connected,     \* TcpStream::connect succeeded
    uin,             \* every byte the upstream peer sends, then end-of-file
    t_local,         \* target.local_addr(): the endpoint the socket is bound to
    upos,            \* number of bytes of uin consumed
    t_out,           \* bytes written to the upstream socket, in order
    t_shut_rd,       \* upstream socket shut down for reading
    t_shut_wr,       \* upstream socket shut down for writing
    t_handles,       \* live handles of the upstream socket
    nclones,         \* try_clone calls that succeeded so far
    \* the relay threads
    dl_pc, dl_buf,   \* download thread (upstream -> client)
    ul_pc, ul_buf,   \* upload thread (client -> upstream)
    \* the accept loop of Merino::serve
    acc_pc,          \* position of the loop
    backlog,         \* connections waiting on the listener
    arrived,         \* connections that reached the listener so far
    aborted,         \* connections lost to a failed accept
    accept_errs,     \* accept calls that returned Err so far
    sess             \* the sessions dispatched so far, in order

cfgVars == <<auth_methods, authed_users, host_le>>
inVars == <<cin, rpos>>
sockVars == <<out, failed, c_shut_rd, c_shut_wr, cbroken, c_handles>>
authVars == <<socks_version, auth_nmethods, mi, methods, ulen, plen, username, password>>
reqVars == <<packet, dlen, command, addr_type, addr, port, sock_addr>>
upVars == <<connects, t_connected, uin, t_local, upos, t_out, t_shut_rd, t_shut_wr,
            t_handles, nclones>>
relayVars == <<dl_pc, dl_buf, ul_pc, ul_buf>>
accVars == <<acc_pc, backlog, arrived, aborted, accept_errs, sess>>
sessionVars == <<inVars, sockVars, authVars, reqVars, upVars, relayVars, pc, err>>

vars == <<cfgVars, accVars, sessionVars>>

(***************************************************************************)
(* Socket primitives (std::net::TcpStream on the client socket).           *)
(*                                                                         *)
(* A read_exact returns the next bytes of `cin`, or fails at end-of-file   *)
(* or on a reset connection.  A write fails on a reset connection and on a *)
(* socket shut down for writing.  shutdown(Both) fails (ENOTCONN) on a     *)
(* reset connection and may fail on a socket that is already shut down.    *)
(* The peer_addr()? calls inside debug! (lib.rs 144, 171, 266) fail only   *)
(* on a reset connection, where the read or write that follows returns the *)
(* same Error::Io; the one inside info! (lib.rs 274) is in HandleCommand.  *)
(***************************************************************************)
Avail == Len(cin) - rpos

\* the next n unread bytes of the client stream
Peek(n) == SubSeq(cin, rpos + 1, rpos + n)

\* read_exact(buf) with buf.len() = n can return Ok
ReadCanSucceed(n) == n = 0 \/ (~cbroken /\ Avail >= n)

\* read_exact can return Err: reset connection, end-of-file before n bytes,
\* or a socket already shut down for reading (whether bytes that were
\* buffered before the shutdown are still delivered depends on the platform)
ReadCanFail(n) == n > 0 /\ (cbroken \/ Avail < n \/ c_shut_rd)

\* position after a failed read_exact: a short read consumed what was there
RposAfterFail == IF ~cbroken /\ ~c_shut_rd THEN Len(cin) ELSE rpos

\* write_all returns Ok
WriteOk == ~cbroken /\ ~c_shut_wr

\* stream.shutdown(Shutdown::Both) can return Ok / Err (ENOTCONN)
ShutdownCanSucceed == ~cbroken
ShutdownCanFail == cbroken \/ (c_shut_rd /\ c_shut_wr)

Wr(site, bytes) == [site |-> site, bytes |-> bytes]

\* write_all(bytes) on the client socket, successful
Emit(site, bytes) ==
    /\ WriteOk
    /\ out' = Append(out, Wr(site, bytes))
    /\ UNCHANGED failed

\* write_all(bytes) on the client socket, failing
EmitFails(site, bytes) ==
    /\ ~WriteOk
    /\ failed' = Append(failed, Wr(site, bytes))
    /\ UNCHANGED out

\* the session thread leaves init with Err(e)
Raise(e) ==
    /\ pc' = "h_error"
    /\ err' = e


(***************************************************************************)
(* SOCKClient::init (lib.rs 143-168).                                      *)
(***************************************************************************)
\* an init that also lets SOCKS4 greetings through to auth
VersionSupportedOrSocks4(v) == v = SOCKS_VERSION \/ v = 4

\* lib.rs 155: the greeting's version is the supported one
VersionSupported(v) == v = SOCKS_VERSION

\* lib.rs 145-158: read the 2-byte greeting header, test the version
InitReadHeader ==
    /\ pc = "init_hdr"
    /\ \/ /\ ReadCanSucceed(2)
          /\ socks_version' = Peek(2)[1]
          /\ auth_nmethods' = Peek(2)[2]
          /\ rpos' = rpos + 2
          /\ pc' = IF VersionSupported(Peek(2)[1]) THEN "auth_methods"
                   ELSE "init_shutdown"
          /\ UNCHANGED err
       \/ /\ ReadCanFail(2)
          /\ rpos' = RposAfterFail
          /\ Raise(IoErr({}))
          /\ UNCHANGED <<socks_version, auth_nmethods>>
    /\ UNCHANGED <<cfgVars, accVars, cin, sockVars, mi, methods, ulen, plen, username, password,
                   reqVars, upVars, relayVars>>

\* lib.rs 157: self.shutdown()? for an unsupported version, then Ok(())
InitShutdown ==
    /\ pc = "init_shutdown"
    /\ c_shut_rd' = TRUE
    /\ c_shut_wr' = TRUE
    /\ \/ /\ ShutdownCanSucceed
          /\ pc' = "exit"
          /\ UNCHANGED err
       \/ /\ ShutdownCanFail
          /\ Raise(IoErr({}))
    /\ UNCHANGED <<cfgVars, accVars, inVars, out, failed, cbroken, c_handles, authVars,
                   reqVars, upVars, relayVars>>

(***************************************************************************)
(* SOCKClient::get_avalible_methods (lib.rs 332-342).                      *)
(***************************************************************************)
\* lib.rs 337-339: the Vec after one method octet has been read
PushMethod(ms, enabled, octet) ==
    IF AuthMethodsFrom(octet) \in enabled
    THEN Append(ms, AuthMethodsFrom(octet))
    ELSE ms

\* a loop that stops one method octet early
MethodsLeftOffByOne(i, n) == i + 1 < n

\* lib.rs 334: for _ in 0..self.auth_nmethods
MethodsLeft(i, n) == i < n

\* lib.rs 334-340: one iteration of the loop, or its end
AuthReadMethod ==
    /\ pc = "auth_methods"
    /\ \/ /\ MethodsLeft(mi, auth_nmethods)
          /\ ReadCanSucceed(1)
          /\ methods' = PushMethod(methods, auth_methods, Peek(1)[1])
          /\ mi' = mi + 1
          /\ rpos' = rpos + 1
          /\ UNCHANGED <<pc, err>>
       \/ /\ MethodsLeft(mi, auth_nmethods)
          /\ ReadCanFail(1)
          /\ rpos' = RposAfterFail
          /\ Raise(IoErr({}))
          /\ UNCHANGED <<mi, methods>>
       \/ /\ ~MethodsLeft(mi, auth_nmethods)
          /\ pc' = "auth_select"
          /\ UNCHANGED <<rpos, mi, methods, err>>
    /\ UNCHANGED <<cfgVars, accVars, cin, sockVars, socks_version, auth_nmethods, ulen,
                   plen, username, password, reqVars, upVars, relayVars>>

(***************************************************************************)
(* SOCKClient::auth (lib.rs 170-262).                                      *)
(***************************************************************************)
InSeq(x, sq) == \E k \in 1..Len(sq) : sq[k] = x

\* lib.rs 181, 247, 254: response[1], the method the server answers with
SelectMethod(ms) ==
    IF InSeq(UserPass, ms) THEN AuthCode(UserPass)
    ELSE IF InSeq(NoAuth, ms) THEN AuthCode(NoAuth)
    ELSE AuthCode(NoMethods)

\* lib.rs 181-186, 247-251, 254-257: write the method selection
AuthSelect ==
    /\ pc = "auth_select"
    /\ LET m == SelectMethod(methods) IN
       \/ /\ Emit("method_selection", <<SOCKS_VERSION, m>>)
          /\ pc' = CASE m = AuthCode(UserPass) -> "up_hdr"
                     [] m = AuthCode(NoAuth) -> "req_hdr"
                     [] OTHER -> "nm_shutdown"
          /\ UNCHANGED err
       \/ /\ EmitFails("method_selection", <<SOCKS_VERSION, m>>)
          /\ Raise(IoErr({}))
    /\ UNCHANGED <<cfgVars, accVars, inVars, c_shut_rd, c_shut_wr, cbroken, c_handles,
                   authVars, reqVars, upVars, relayVars>>

\* lib.rs 258-259: self.shutdown()?; Err(ResponseCode::Failure.into())
AuthNoMethodsShutdown ==
    /\ pc = "nm_shutdown"
    /\ c_shut_rd' = TRUE
    /\ c_shut_wr' = TRUE
    /\ \/ /\ ShutdownCanSucceed
          /\ Raise(Socks5Err(Failure))
       \/ /\ ShutdownCanFail
          /\ Raise(IoErr({}))
    /\ UNCHANGED <<cfgVars, accVars, inVars, out, failed, cbroken, c_handles, authVars,
                   reqVars, upVars, relayVars>>

\* lib.rs 188-196: read the 2-byte RFC 1929 header; header[0] is not looked at
AuthReadHeader ==
    /\ pc = "up_hdr"
    /\ \/ /\ ReadCanSucceed(2)
          /\ ulen' = Peek(2)[2]
          /\ rpos' = rpos + 2
          /\ pc' = "up_uname"
          /\ UNCHANGED err
       \/ /\ ReadCanFail(2)
          /\ rpos' = RposAfterFail
          /\ Raise(IoErr({}))
          /\ UNCHANGED ulen
    /\ UNCHANGED <<cfgVars, accVars, cin, sockVars, socks_version, auth_nmethods, mi,
                   methods, plen, username, password, reqVars, upVars, relayVars>>

\* lib.rs 198-205: read ULEN bytes of username
AuthReadUsername ==
    /\ pc = "up_uname"
    /\ \/ /\ ReadCanSucceed(ulen)
          /\ username' = Peek(ulen)
          /\ rpos' = rpos + ulen
          /\ pc' = "up_plen"
          /\ UNCHANGED err
       \/ /\ ReadCanFail(ulen)
          /\ rpos' = RposAfterFail
          /\ Raise(IoErr({}))
          /\ UNCHANGED username
    /\ UNCHANGED <<cfgVars, accVars, cin, sockVars, socks_version, auth_nmethods, mi,
                   methods, ulen, plen, password, reqVars, upVars, relayVars>>

\* lib.rs 208-209: read PLEN
AuthReadPlen ==
    /\ pc = "up_plen"
    /\ \/ /\ ReadCanSucceed(1)
          /\ plen' = Peek(1)[1]
          /\ rpos' = rpos + 1
          /\ pc' = "up_passwd"
          /\ UNCHANGED err
       \/ /\ ReadCanFail(1)
          /\ rpos' = RposAfterFail
          /\ Raise(IoErr({}))
          /\ UNCHANGED plen
    /\ UNCHANGED <<cfgVars, accVars, cin, sockVars, socks_version, auth_nmethods, mi,
                   methods, ulen, username, password, reqVars, upVars, relayVars>>

\* lib.rs 212-219: read PLEN bytes of password
AuthReadPassword ==
    /\ pc = "up_passwd"
    /\ \/ /\ ReadCanSucceed(plen)
          /\ password' = Peek(plen)
          /\ rpos' = rpos + plen
          /\ pc' = "up_check"
          /\ UNCHANGED err
       \/ /\ ReadCanFail(plen)
          /\ rpos' = RposAfterFail
          /\ Raise(IoErr({}))
          /\ UNCHANGED password
    /\ UNCHANGED <<cfgVars, accVars, cin, sockVars, socks_version, auth_nmethods, mi,
                   methods, ulen, plen, username, reqVars, upVars, relayVars>>

\* lib.rs 24-28: a User; the Strings are kept as their UTF-8 bytes
User(u, p) == [username |-> u, password |-> p]

\* lib.rs 126-129: SOCKClient::authed
Authed(users, user) == user \in users

\* lib.rs 221-243: from_utf8 of both fields, the lookup, the status reply
AuthCheck ==
    /\ pc = "up_check"
    /\ \/ /\ ~(ValidUtf8(username) /\ ValidUtf8(password))
          /\ Raise(Utf8Err)
          /\ UNCHANGED <<out, failed>>
       \/ /\ ValidUtf8(username) /\ ValidUtf8(password)
          /\ LET ok == Authed(authed_users, User(username, password))
                 status == IF ok THEN Success ELSE Failure IN
             \/ /\ Emit("auth_status", <<1, status>>)
                /\ pc' = IF ok THEN "req_hdr" ELSE "up_shutdown"
                /\ UNCHANGED err
             \/ /\ EmitFails("auth_status", <<1, status>>)
                /\ Raise(IoErr({}))
    /\ UNCHANGED <<cfgVars, accVars, inVars, c_shut_rd, c_shut_wr, cbroken, c_handles,
                   authVars, reqVars, upVars, relayVars>>

\* lib.rs 241-245: self.shutdown()? after "Access Denied", then Ok(())
AuthDeniedShutdown ==
    /\ pc = "up_shutdown"
    /\ c_shut_rd' = TRUE
    /\ c_shut_wr' = TRUE
    /\ \/ /\ ShutdownCanSucceed
          /\ pc' = "req_hdr"
          /\ UNCHANGED err
       \/ /\ ShutdownCanFail
          /\ Raise(IoErr({}))
    /\ UNCHANGED <<cfgVars, accVars, inVars, out, failed, cbroken, c_handles, authVars,
                   reqVars, upVars, relayVars>>


(***************************************************************************)
(* SOCKSReq::from_stream (lib.rs 362-439).                                 *)
(***************************************************************************)
\* lib.rs 363-367: read the 4-byte request header, test the version
ReqReadHeader ==
    /\ pc = "req_hdr"
    /\ \/ /\ ReadCanSucceed(4)
          /\ packet' = Peek(4)
          /\ rpos' = rpos + 4
          /\ pc' = IF Peek(4)[1] # SOCKS_VERSION THEN "req_ver_shutdown"
                   ELSE "req_parse"
          /\ UNCHANGED err
       \/ /\ ReadCanFail(4)
          /\ rpos' = RposAfterFail
          /\ Raise(IoErr({}))
          /\ UNCHANGED packet
    /\ UNCHANGED <<cfgVars, accVars, cin, sockVars, authVars, dlen, command, addr_type,
                   addr, port, sock_addr, upVars, relayVars>>

\* lib.rs 369: stream.shutdown(Shutdown::Both)? for a bad version; the
\* function then goes on with the command
ReqVersionShutdown ==
    /\ pc = "req_ver_shutdown"
    /\ c_shut_rd' = TRUE
    /\ c_shut_wr' = TRUE
    /\ \/ /\ ShutdownCanSucceed
          /\ pc' = "req_parse"
          /\ UNCHANGED err
       \/ /\ ShutdownCanFail
          /\ Raise(IoErr({}))
    /\ UNCHANGED <<cfgVars, accVars, inVars, out, failed, cbroken, c_handles, authVars,
                   reqVars, upVars, relayVars>>

\* lib.rs 374-396: the command and the address type of the header
ReqParse ==
    /\ pc = "req_parse"
    /\ IF SockCommandFrom(packet[2]) = "None"
       THEN /\ pc' = "req_cmd_shutdown"
            /\ UNCHANGED <<command, addr_type>>
       ELSE /\ command' = SockCommandFrom(packet[2])
            /\ IF AddrTypeTryFrom(packet[4]) = "Err"
               THEN /\ pc' = "req_atyp_shutdown"
                    /\ UNCHANGED addr_type
               ELSE /\ addr_type' = AddrTypeTryFrom(packet[4])
                    /\ pc' = "req_addr"
    /\ UNCHANGED <<cfgVars, accVars, inVars, sockVars, authVars, packet, dlen, addr, port,
                   sock_addr, upVars, relayVars, err>>

\* lib.rs 382-383: shutdown, then Err(CommandNotSupported)
ReqCommandShutdown ==
    /\ pc = "req_cmd_shutdown"
    /\ c_shut_rd' = TRUE
    /\ c_shut_wr' = TRUE
    /\ \/ /\ ShutdownCanSucceed
          /\ Raise(Socks5Err(CommandNotSupported))
       \/ /\ ShutdownCanFail
          /\ Raise(IoErr({}))
    /\ UNCHANGED <<cfgVars, accVars, inVars, out, failed, cbroken, c_handles, authVars,
                   reqVars, upVars, relayVars>>

\* lib.rs 392-393: shutdown, then Err(AddrTypeNotSupported)
ReqAddrTypeShutdown ==
    /\ pc = "req_atyp_shutdown"
    /\ c_shut_rd' = TRUE
    /\ c_shut_wr' = TRUE
    /\ \/ /\ ShutdownCanSucceed
          /\ Raise(Socks5Err(AddrTypeNotSupported))
       \/ /\ ShutdownCanFail
          /\ Raise(IoErr({}))
    /\ UNCHANGED <<cfgVars, accVars, inVars, out, failed, cbroken, c_handles, authVars,
                   reqVars, upVars, relayVars>>

\* lib.rs 400-420: number of octets read first for each address type
\* (for Domain, the length octet)
AddrFirstRead(t) ==
    CASE t = "V4" -> 4
      [] t = "V6" -> 16
      [] t = "Domain" -> 1

\* lib.rs 400-420: read DST.ADDR (for Domain, its length octet)
ReqReadAddr ==
    /\ pc = "req_addr"
    /\ LET n == AddrFirstRead(addr_type) IN
       \/ /\ ReadCanSucceed(n)
          /\ rpos' = rpos + n
          /\ IF addr_type = "Domain"
             THEN /\ dlen' = Peek(1)[1]
                  /\ pc' = "req_domain"
                  /\ UNCHANGED addr
             ELSE /\ addr' = Peek(n)
                  /\ pc' = "req_port"
                  /\ UNCHANGED dlen
          /\ UNCHANGED err
       \/ /\ ReadCanFail(n)
          /\ rpos' = RposAfterFail
          /\ Raise(IoErr({}))
          /\ UNCHANGED <<dlen, addr>>
    /\ UNCHANGED <<cfgVars, accVars, cin, sockVars, authVars, packet, command, addr_type,
                   port, sock_addr, upVars, relayVars>>

\* lib.rs 405-408: read the dlen octets of the domain
ReqReadDomain ==
    /\ pc = "req_domain"
    /\ \/ /\ ReadCanSucceed(dlen)
          /\ addr' = Peek(dlen)
          /\ rpos' = rpos + dlen
          /\ pc' = "req_port"
          /\ UNCHANGED err
       \/ /\ ReadCanFail(dlen)
          /\ rpos' = RposAfterFail
          /\ Raise(IoErr({}))
          /\ UNCHANGED addr
    /\ UNCHANGED <<cfgVars, accVars, cin, sockVars, authVars, packet, dlen, command,
                   addr_type, port, sock_addr, upVars, relayVars>>

\* a merge that takes the first octet as the low one
MergePortSwapped(hi, lo) == ((lo * 256) % 65536) + hi

\* lib.rs 429: (u16::from(port[0]) << 8) | u16::from(port[1])
MergePort(hi, lo) == ((hi * 256) % 65536) + lo

\* lib.rs 425-438: read DST.PORT, return the request
ReqReadPort ==
    /\ pc = "req_port"
    /\ \/ /\ ReadCanSucceed(2)
          /\ port' = MergePort(Peek(2)[1], Peek(2)[2])
          /\ rpos' = rpos + 2
          /\ pc' = "hc_match"
          /\ UNCHANGED err
       \/ /\ ReadCanFail(2)
          /\ rpos' = RposAfterFail
          /\ Raise(IoErr({}))
          /\ UNCHANGED port
    /\ UNCHANGED <<cfgVars, accVars, cin, sockVars, authVars, packet, dlen, command,
                   addr_type, addr, sock_addr, upVars, relayVars>>


(***************************************************************************)
(* Address::to_socket_addrs (protocol.rs 220-263).                         *)
(***************************************************************************)
\* u16::from_ne_bytes([c0, c1]) on the build target
FromNeBytes(c0, c1, le) == IF le THEN c1 * 256 + c0 ELSE c0 * 256 + c1

\* the 16 octets of Ipv6Addr::new(g[1], ..., g[8])
Ipv6Octets(g) ==
    [k \in 1..16 |-> IF k % 2 = 1 THEN g[(k + 1) \div 2] \div 256
                     ELSE g[k \div 2] % 256]

\* a place near the middle of s where no two-byte sequence is cut: a lead
\* byte always starts a sequence, so a cut after position m is wrong only
\* between a lead byte and its continuation, and then a cut after m - 1 is
\* right
Utf8Cut(s) ==
    LET m == Len(s) \div 2
    IN  IF s[m] >= 194 /\ s[m] <= 223 /\ IsCont(s[m + 1]) THEN m - 1 ELSE m

\* String::from_utf8_lossy for text made of ASCII, well-formed two-byte
\* sequences and stray bytes: a stray byte becomes U+FFFD (EF BF BD).
\* Long text is converted half by half.
RECURSIVE Utf8Lossy(_)
Utf8Lossy(s) ==
    IF Len(s) = 0 THEN <<>>
    ELSE IF Len(s) >= 4
         THEN Utf8Lossy(SubSeq(s, 1, Utf8Cut(s)))
                 \o Utf8Lossy(SubSeq(s, Utf8Cut(s) + 1, Len(s)))
    ELSE IF s[1] <= 127 THEN <<s[1]>> \o Utf8Lossy(Tail(s))
    ELSE IF s[1] >= 194 /\ s[1] <= 223 /\ Len(s) >= 2 /\ IsCont(s[2])
         THEN <<s[1], s[2]>> \o Utf8Lossy(SubSeq(s, 3, Len(s)))
    ELSE <<239, 191, 189>> \o Utf8Lossy(Tail(s))

\* protocol.rs 226-256: the single socket address of a V4 / V6 Address
SocketAddrOf(t, data, p, le) ==
    IF t = "V6"
    THEN [kind |-> "V6", port |-> p,
          ip |-> Ipv6Octets([k \in 1..8 |->
                               FromNeBytes(data[2 * k - 1], data[2 * k], le)])]
    ELSE [kind |-> "V4", port |-> p,
          ip |-> <<data[1], data[2], data[3], data[4]>>]

\* protocol.rs 257-260: an address the resolver returned for host:port
ResolvedAddr(data, p) == [kind |-> "Resolved", port |-> p, ip |-> Utf8Lossy(data)]

\* diagnostics an OS error text of resolution or connect may carry
IoDiags == SUBSET Keywords

(***************************************************************************)
(* SOCKClient::handle_client (lib.rs 265-329).                             *)
(***************************************************************************)
\* a match whose Bind and UdpAssosiate arms never return
CommandBranchWaits(c) == IF c = "Connect" THEN "hc_resolve" ELSE "hc_match"

\* lib.rs 280-319: what the match on req.command does
CommandBranch(c) == IF c = "Connect" THEN "hc_resolve" ELSE "exit"

\* lib.rs 273-282, 318-319: log the request (peer_addr()? is evaluated only
\* when the info level is on), then match on the command
HandleCommand ==
    /\ pc = "hc_match"
    /\ \/ /\ pc' = CommandBranch(command)
          /\ UNCHANGED err
       \/ /\ cbroken
          /\ Raise(IoErr({}))
    /\ UNCHANGED <<cfgVars, accVars, inVars, sockVars, authVars, reqVars, upVars, relayVars>>

\* lib.rs 285: req.address().to_socket_addrs()?
HandleResolve ==
    /\ pc = "hc_resolve"
    /\ \/ /\ addr_type \in {"V4", "V6"}
          /\ sock_addr' = <<SocketAddrOf(addr_type, addr, port, host_le)>>
          /\ pc' = "hc_connect"
          /\ UNCHANGED err
       \/ /\ addr_type = "Domain"
          /\ \E n \in 0..1 :
                sock_addr' = [k \in 1..n |-> ResolvedAddr(addr, port)]
          /\ pc' = "hc_connect"
          /\ UNCHANGED err
       \/ /\ addr_type = "Domain"
          /\ \E d \in IoDiags : Raise(IoErr(d))
          /\ UNCHANGED sock_addr
    /\ UNCHANGED <<cfgVars, accVars, inVars, sockVars, authVars, packet, dlen, command,
                   addr_type, addr, port, upVars, relayVars>>

\* the byte streams an upstream peer may send
RECURSIVE SeqsUpTo(_, _)
SeqsUpTo(A, n) ==
    IF n = 0 THEN {<<>>}
    ELSE SeqsUpTo(A, n - 1) \cup [1..n -> A]

UpstreamBytes == {170}

\* no upstream socket yet
NoEndpoint == [atyp |-> 0, ip |-> <<>>, port |-> 0]

\* the local endpoints the OS may bind the upstream socket to when it
\* connects: an address of the family of the destination and an ephemeral
\* port
LocalEndpoints(kind) ==
    IF kind = "V6"
    THEN {[atyp |-> 4, ip |-> <<0, 0, 0, 0, 0, 0, 0, 0, 0, 0, 0, 0, 0, 0, 0, 1>>,
           port |-> 49152]}
    ELSE {[atyp |-> 1, ip |-> <<127, 0, 0, 1>>, port |-> 49152],
          [atyp |-> 1, ip |-> <<10, 0, 0, 2>>, port |-> 49153]}

\* lib.rs 289: TcpStream::connect(sock_addr.as_slice())?
HandleConnect ==
    /\ pc = "hc_connect"
    /\ \/ /\ Len(sock_addr) = 0       \* "could not resolve to any addresses"
          /\ Raise(IoErr({}))
          /\ UNCHANGED <<connects, t_connected, uin, t_local, t_handles>>
       \/ /\ Len(sock_addr) > 0
          /\ connects' = connects + 1
          /\ \/ /\ t_connected' = TRUE
                /\ t_handles' = 1
                /\ uin' \in SeqsUpTo(UpstreamBytes, MaxUpstream)
                /\ t_local' \in LocalEndpoints(sock_addr[1].kind)
                /\ pc' = "hc_reply"
                /\ UNCHANGED err
             \/ /\ \E d \in IoDiags : Raise(IoErr(d))
                /\ UNCHANGED <<t_connected, uin, t_local, t_handles>>
    /\ UNCHANGED <<cfgVars, accVars, inVars, sockVars, authVars, reqVars, upos, t_out,
                   t_shut_rd, t_shut_wr, nclones, relayVars>>

\* lib.rs 293: the bytes of the success reply
SuccessReply == <<SOCKS_VERSION, Success, RESERVED, 1, 127, 0, 0, 1, 0, 0>>

\* lib.rs 293: write_all(success reply).unwrap(); a failed write panics the
\* thread, which drops the target and the client
HandleReply ==
    /\ pc = "hc_reply"
    /\ \/ /\ Emit("reply", SuccessReply)
          /\ pc' = "hc_clone"
          /\ UNCHANGED <<c_handles, t_handles>>
       \/ /\ EmitFails("reply", SuccessReply)
          /\ pc' = "panicked"
          /\ c_handles' = c_handles - 1
          /\ t_handles' = 0
    /\ UNCHANGED <<cfgVars, accVars, inVars, c_shut_rd, c_shut_wr, cbroken, authVars,
                   reqVars, connects, t_connected, uin, t_local, upos, t_out, t_shut_rd,
                   t_shut_wr, nclones, relayVars, err>>

\* lib.rs 296-299: the four try_clone()? calls, two on the target and then
\* two on the client stream; on Err the clones and the target are dropped
HandleClone ==
    /\ pc = "hc_clone"
    /\ \/ /\ nclones' = nclones + 1
          /\ IF nclones < 2
             THEN t_handles' = t_handles + 1 /\ UNCHANGED c_handles
             ELSE c_handles' = c_handles + 1 /\ UNCHANGED t_handles
          /\ pc' = IF nclones + 1 = 4 THEN "hc_spawn_dl" ELSE "hc_clone"
          /\ UNCHANGED err
       \/ /\ Raise(IoErr({}))      \* e.g. EMFILE
          /\ t_handles' = 0
          /\ c_handles' = 1
          /\ UNCHANGED nclones
    /\ UNCHANGED <<cfgVars, accVars, inVars, out, failed, c_shut_rd, c_shut_wr, cbroken,
                   authVars, reqVars, connects, t_connected, uin, t_local, upos, t_out,
                   t_shut_rd, t_shut_wr, relayVars>>

\* lib.rs 303-307: spawn the download thread
SpawnDownload ==
    /\ pc = "hc_spawn_dl"
    /\ dl_pc' = "copy"
    /\ pc' = "hc_spawn_ul"
    /\ UNCHANGED <<cfgVars, accVars, inVars, sockVars, authVars, reqVars, upVars, dl_buf,
                   ul_pc, ul_buf, err>>

\* lib.rs 310-328: spawn the upload thread, drop the target, return Ok(())
SpawnUpload ==
    /\ pc = "hc_spawn_ul"
    /\ ul_pc' = "copy"
    /\ t_handles' = t_handles - 1
    /\ pc' = "exit"
    /\ UNCHANGED <<cfgVars, accVars, inVars, sockVars, authVars, reqVars, connects,
                   t_connected, uin, t_local, upos, t_out, t_shut_rd, t_shut_wr, nclones,
                   dl_pc, dl_buf, ul_buf, err>>

(***************************************************************************)
(* The closure of Merino::serve (lib.rs 76-100).                           *)
(***************************************************************************)
\* lib.rs 77, 100: init returned Ok(()); the closure ends and drops client
SessionExit ==
    /\ pc = "exit"
    /\ pc' = "done"
    /\ c_handles' = c_handles - 1
    /\ UNCHANGED <<cfgVars, accVars, inVars, out, failed, c_shut_rd, c_shut_wr, cbroken,
                   authVars, reqVars, upVars, relayVars, err>>

\* lib.rs 79-91: the reply code for the error init returned
HandlerResponse(e) == ClassifyError(ErrorText(e))

\* lib.rs 93-95: client.error(response); a failed write is only logged
HandlerError ==
    /\ pc = "h_error"
    /\ \/ Emit("error", <<5, HandlerResponse(err)>>)
       \/ EmitFails("error", <<5, HandlerResponse(err)>>)
    /\ pc' = "h_shutdown"
    /\ UNCHANGED <<cfgVars, accVars, inVars, c_shut_rd, c_shut_wr, cbroken, c_handles,
                   authVars, reqVars, upVars, relayVars, err>>

\* lib.rs 96-100: client.shutdown(), its error only logged; the closure
\* ends and drops client
HandlerShutdown ==
    /\ pc = "h_shutdown"
    /\ c_shut_rd' = TRUE
    /\ c_shut_wr' = TRUE
    /\ c_handles' = c_handles - 1
    /\ pc' = "done"
    /\ UNCHANGED <<cfgVars, accVars, inVars, out, failed, cbroken, authVars, reqVars,
                   upVars, relayVars, err>>

(***************************************************************************)
(* The relay threads (lib.rs 303-314).  std::io::copy moves one chunk at a *)
(* time; a chunk is one byte here.                                         *)
(***************************************************************************)
\* lib.rs 304: copy(&mut outbound_in, ..) reads a chunk from the upstream
DownloadRead ==
    /\ dl_pc = "copy"
    /\ IF upos < Len(uin) /\ ~t_shut_rd
       THEN /\ dl_buf' = <<uin[upos + 1]>>
            /\ upos' = upos + 1
            /\ dl_pc' = "write"
       ELSE /\ dl_pc' = "shut_src"
            /\ UNCHANGED <<dl_buf, upos>>
    /\ UNCHANGED <<cfgVars, accVars, inVars, sockVars, authVars, reqVars, connects,
                   t_connected, uin, t_local, t_out, t_shut_rd, t_shut_wr, t_handles,
                   nclones, ul_pc, ul_buf, pc, err>>

\* lib.rs 304: copy(.., &mut inbound_out) writes the chunk to the client
DownloadWrite ==
    /\ dl_pc = "write"
    /\ \/ /\ Emit("relay", dl_buf)
          /\ dl_pc' = "copy"
       \/ /\ EmitFails("relay", dl_buf)
          /\ dl_pc' = "shut_src"
    /\ UNCHANGED <<cfgVars, accVars, inVars, c_shut_rd, c_shut_wr, cbroken, c_handles,
                   authVars, reqVars, upVars, dl_buf, ul_pc, ul_buf, pc, err>>

\* lib.rs 305: outbound_in.shutdown(Shutdown::Read)
DownloadShutSrc ==
    /\ dl_pc = "shut_src"
    /\ t_shut_rd' = TRUE
    /\ dl_pc' = "shut_dst"
    /\ UNCHANGED <<cfgVars, accVars, inVars, sockVars, authVars, reqVars, connects,
                   t_connected, uin, t_local, upos, t_out, t_shut_wr, t_handles, nclones,
                   dl_buf, ul_pc, ul_buf, pc, err>>

\* lib.rs 306-307: inbound_out.shutdown(Shutdown::Write); the thread ends
\* and drops its two handles
DownloadShutDst ==
    /\ dl_pc = "shut_dst"
    /\ c_shut_wr' = TRUE
    /\ dl_pc' = "end"
    /\ c_handles' = c_handles - 1
    /\ t_handles' = t_handles - 1
    /\ UNCHANGED <<cfgVars, accVars, inVars, out, failed, c_shut_rd, cbroken, authVars,
                   reqVars, connects, t_connected, uin, t_local, upos, t_out, t_shut_rd,
                   t_shut_wr, nclones, dl_buf, ul_pc, ul_buf, pc, err>>

\* lib.rs 311: copy(&mut inbound_in, ..) reads a chunk from the client
UploadRead ==
    /\ ul_pc = "copy"
    /\ IF Avail > 0 /\ ~cbroken /\ ~c_shut_rd
       THEN /\ ul_buf' = Peek(1)
            /\ rpos' = rpos + 1
            /\ ul_pc' = "write"
       ELSE /\ ul_pc' = "shut_src"
            /\ UNCHANGED <<ul_buf, rpos>>
    /\ UNCHANGED <<cfgVars, accVars, cin, sockVars, authVars, reqVars, upVars, dl_pc,
                   dl_buf, pc, err>>

\* a copy that writes every chunk to the upstream twice
UploadWriteTwice ==
    /\ ul_pc = "write"
    /\ IF ~t_shut_wr
       THEN /\ t_out' = t_out \o ul_buf \o ul_buf
            /\ ul_pc' = "copy"
       ELSE /\ ul_pc' = "shut_src"
            /\ UNCHANGED t_out
    /\ UNCHANGED <<cfgVars, accVars, inVars, sockVars, authVars, reqVars, connects,
                   t_connected, uin, t_local, upos, t_shut_rd, t_shut_wr, t_handles,
                   nclones, dl_pc, dl_buf, ul_buf, pc, err>>

\* lib.rs 311: copy(.., &mut outbound_out) writes the chunk to the upstream
UploadWrite ==
    /\ ul_pc = "write"
    /\ IF ~t_shut_wr
       THEN /\ t_out' = t_out \o ul_buf
            /\ ul_pc' = "copy"
       ELSE /\ ul_pc' = "shut_src"
            /\ UNCHANGED t_out
    /\ UNCHANGED <<cfgVars, accVars, inVars, sockVars, authVars, reqVars, connects,
                   t_connected, uin, t_local, upos, t_shut_rd, t_shut_wr, t_handles,
                   nclones, dl_pc, dl_buf, ul_buf, pc, err>>

\* an upload thread that shuts its source down in both directions
UploadShutSrcBoth ==
    /\ ul_pc = "shut_src"
    /\ c_shut_rd' = TRUE
    /\ c_shut_wr' = TRUE
    /\ ul_pc' = "shut_dst"
    /\ UNCHANGED <<cfgVars, accVars, inVars, out, failed, cbroken, c_handles,
                   authVars, reqVars, upVars, dl_pc, dl_buf, ul_buf, pc, err>>

\* lib.rs 312: inbound_in.shutdown(Shutdown::Read)
UploadShutSrc ==
    /\ ul_pc = "shut_src"
    /\ c_shut_rd' = TRUE
    /\ ul_pc' = "shut_dst"
    /\ UNCHANGED <<cfgVars, accVars, inVars, out, failed, c_shut_wr, cbroken, c_handles,
                   authVars, reqVars, upVars, dl_pc, dl_buf, ul_buf, pc, err>>

\* lib.rs 313-314: outbound_out.shutdown(Shutdown::Write); the thread ends
\* and drops its two handles
UploadShutDst ==
    /\ ul_pc = "shut_dst"
    /\ t_shut_wr' = TRUE
    /\ ul_pc' = "end"
    /\ c_handles' = c_handles - 1
    /\ t_handles' = t_handles - 1
    /\ UNCHANGED <<cfgVars, accVars, inVars, out, failed, c_shut_rd, c_shut_wr, cbroken,
                   authVars, reqVars, connects, t_connected, uin, t_local, upos, t_out,
                   t_shut_rd, nclones, dl_pc, dl_buf, ul_buf, pc, err>>

(***************************************************************************)
(* The environment: the peer resets the client connection.                 *)
(***************************************************************************)
PeerReset ==
    /\ ~cbroken
    /\ c_handles > 0
    /\ cbroken' = TRUE
    /\ UNCHANGED <<cfgVars, accVars, inVars, out, failed, c_shut_rd, c_shut_wr, c_handles,
                   authVars, reqVars, upVars, relayVars, pc, err>>


(***************************************************************************)
(* The accept loop of Merino::serve (lib.rs 69-103).  A dispatched session *)
(* is followed only to its outcome: "running" until init returns (for as   *)
(* long as its reads block), then "ok" (init returned Ok), "error" (init   *)
(* returned Err and the handler ran) or "panicked" (the unwrap of lib.rs   *)
(* 293).                                                                   *)
(***************************************************************************)
\* a connection reaches the listener
Arrive ==
    /\ arrived < MaxConns
    /\ arrived' = arrived + 1
    /\ backlog' = backlog + 1
    /\ UNCHANGED <<cfgVars, sessionVars, acc_pc, aborted, accept_errs, sess>>

\* lib.rs 72: self.listener.accept() returns Ok((stream, _remote))
AcceptOk ==
    /\ acc_pc = "accept"
    /\ backlog > 0
    /\ backlog' = backlog - 1
    /\ acc_pc' = "spawn"
    /\ UNCHANGED <<cfgVars, sessionVars, arrived, aborted, accept_errs, sess>>

\* a loop that returns the accept error to its caller
AfterAcceptErrReturns == "returned"

\* lib.rs 71-72, 101-102: `if let Ok(..)` has no else: the loop goes on
AfterAcceptErr == "accept"

\* lib.rs 72: self.listener.accept() returns Err: with the connection lost
\* (ECONNABORTED) or still waiting (EMFILE)
AcceptErr ==
    /\ acc_pc = "accept"
    /\ accept_errs < MaxAcceptErrors
    /\ accept_errs' = accept_errs + 1
    /\ \E lost \in {0, 1} :
          /\ lost <= backlog
          /\ backlog' = backlog - lost
          /\ aborted' = aborted + lost
    /\ acc_pc' = AfterAcceptErr
    /\ UNCHANGED <<cfgVars, sessionVars, arrived, sess>>

\* lib.rs 74-75: SOCKClient::new(stream, self.users.clone(),
\* self.auth_methods.clone())
NewSession(users, enabled) ==
    [st |-> "running", authed_users |-> users, auth_methods |-> enabled]

\* lib.rs 74-100: build the session, thread::spawn it, go round the loop
SpawnSession ==
    /\ acc_pc = "spawn"
    /\ sess' = Append(sess, NewSession(authed_users, auth_methods))
    /\ acc_pc' = "accept"
    /\ UNCHANGED <<cfgVars, sessionVars, backlog, arrived, aborted, accept_errs>>

\* lib.rs 76-100: the thread of session i ends
SessionEnds ==
    /\ \E i \in 1..Len(sess), how \in {"ok", "error", "panicked"} :
          /\ sess[i].st = "running"
          /\ sess' = [sess EXCEPT ![i].st = how]
    /\ UNCHANGED <<cfgVars, sessionVars, acc_pc, backlog, arrived, aborted,
                   accept_errs>>


(***************************************************************************)
(* The explored clients and configurations.                                *)
(***************************************************************************)
Prefixes(S) == UNION {{SubSeq(sq, 1, k) : k \in 0..Len(sq)} : sq \in S}

Cat2(A, B) == {a \o b : a \in A, b \in B}

\* method octets: NoAuth, GssApi, UserPass, an IANA one, a private one, 0xFF
MethodOctets == {0, 1, 2, 3, 128, 255}

\* greetings VER | NMETHODS | METHODS
Greetings ==
    UNION {{<<SOCKS_VERSION, n>> \o ms : ms \in [1..n -> MethodOctets]} :
             n \in 0..MaxMethods}

\* greetings of another protocol version
BadVersionGreetings == {<<4, 1, 0>>, <<4, 0>>, <<0, 2, 0, 2>>}

\* credential bytes: "a" and a byte that is not UTF-8
CredBytes == {97, 255}
CredFields == SeqsUpTo(CredBytes, MaxCredLen)

\* RFC 1929 requests VER | ULEN | UNAME | PLEN | PASSWD
Credentials ==
    {<<1, Len(u)>> \o u \o <<Len(p)>> \o p : u \in CredFields, p \in CredFields}

GoodCredentials == <<1, 1, 97, 1, 97>>

\* credential tables
UserTables ==
    { {}, {User(<<97>>, <<97>>)}, {User(<<>>, <<>>)},
      {User(<<97>>, <<97>>), User(<<97>>, <<>>)} }

\* DST.ADDR | DST.PORT for each ATYP octet
DomainBytes == {97, 255}
V4Addrs == {<<127, 0, 0, 1>>, <<10, 1, 2, 3>>}
V6Addrs == {<<0, 0, 0, 0, 0, 0, 0, 0, 0, 0, 0, 0, 0, 0, 0, 1>>,
            <<32, 1, 13, 184, 0, 0, 0, 0, 0, 0, 0, 0, 0, 0, 0, 1>>}
DomainAddrs == {<<Len(d)>> \o d : d \in SeqsUpTo(DomainBytes, MaxDomainLen)}
Ports == {<<0, 80>>, <<1, 187>>}

AddrsOf(atyp) ==
    CASE atyp = 1 -> V4Addrs
      [] atyp = 3 -> DomainAddrs
      [] atyp = 4 -> V6Addrs
      [] OTHER -> {<<127, 0, 0, 1>>}

\* requests VER | CMD | RSV | ATYP | DST.ADDR | DST.PORT
Requests ==
    UNION {{<<v, c, RESERVED, t>> \o a \o p : a \in AddrsOf(t), p \in Ports} :
             v \in {4, 5}, c \in {0, 1, 2, 3}, t \in {1, 2, 3, 4}}

ConnectRequest == <<5, 1, 0, 1, 127, 0, 0, 1, 0, 80>>
BindRequest == <<5, 2, 0, 1, 127, 0, 0, 1, 0, 80>>

PayloadBytes == {16}
Payloads == SeqsUpTo(PayloadBytes, MaxPayload)

EnabledSets == SUBSET {NoAuth, UserPass, GssApi}

\* every greeting, cut short anywhere or followed by a request or by
\* credentials, a request and a payload byte
GreetingClients ==
    Prefixes(Greetings \cup BadVersionGreetings)
    \cup Cat2(Greetings \cup BadVersionGreetings,
              {ConnectRequest, GoodCredentials \o ConnectRequest \o <<16>>})

\* every RFC 1929 request after UserPass was selected, cut short anywhere
\* or followed by a request
CredentialClients ==
    Prefixes(Cat2({<<5, 1, 2>>}, Credentials))
    \cup Cat2(Cat2({<<5, 1, 2>>}, Credentials), {ConnectRequest, BindRequest})

\* a CONNECT to a domain of the greatest length DST.ADDR can frame,
\* followed by one payload byte
LongDomainClient ==
    <<5, 1, 0>> \o <<5, 1, 0, 3, 255>> \o [k \in 1..255 |-> 97] \o <<0, 80>>
                \o <<16>>

\* every request after NoAuth was selected
RequestClients ==
    Prefixes(Cat2(Cat2({<<5, 1, 0>>}, Requests), Payloads))
    \cup {LongDomainClient}

\* lib.rs 60-70: the listener is bound and serve has entered its loop
InitAcceptor ==
    /\ acc_pc = "accept"
    /\ backlog = 0
    /\ arrived = 0
    /\ aborted = 0
    /\ accept_errs = 0
    /\ sess = <<>>

InitSession ==
    /\ rpos = 0
    /\ out = <<>>
    /\ failed = <<>>
    /\ c_shut_rd = FALSE
    /\ c_shut_wr = FALSE
    /\ cbroken = FALSE
    /\ c_handles = 1
    /\ pc = "init_hdr"
    /\ socks_version = 0
    /\ auth_nmethods = 0
    /\ mi = 0
    /\ methods = <<>>
    /\ ulen = 0
    /\ plen = 0
    /\ username = <<>>
    /\ password = <<>>
    /\ packet = <<0, 0, 0, 0>>
    /\ dlen = 0
    /\ command = "Connect"
    /\ addr_type = "V4"
    /\ addr = <<>>
    /\ port = 0
    /\ sock_addr = <<>>
    /\ err = NoErr
    /\ connects = 0
    /\ t_connected = FALSE
    /\ uin = <<>>
    /\ t_local = NoEndpoint
    /\ upos = 0
    /\ t_out = <<>>
    /\ t_shut_rd = FALSE
    /\ t_shut_wr = FALSE
    /\ t_handles = 0
    /\ nclones = 0
    /\ dl_pc = "idle"
    /\ dl_buf = <<>>
    /\ ul_pc = "idle"
    /\ ul_buf = <<>>

Init ==
    /\ InitAcceptor
    /\ InitSession
    /\ \/ /\ cin \in GreetingClients
          /\ auth_methods \in EnabledSets
          /\ authed_users = {User(<<97>>, <<97>>)}
          /\ host_le = TRUE
       \/ /\ cin \in CredentialClients
          /\ auth_methods \in {{UserPass}, {NoAuth, UserPass}}
          /\ authed_users \in UserTables
          /\ host_le = TRUE
       \/ /\ cin \in RequestClients
          /\ auth_methods = {NoAuth}
          /\ authed_users = {}
          /\ host_le \in BOOLEAN

Next ==
    \/ InitReadHeader
    \/ InitShutdown
    \/ AuthReadMethod
    \/ AuthSelect
    \/ AuthNoMethodsShutdown
    \/ AuthReadHeader
    \/ AuthReadUsername
    \/ AuthReadPlen
    \/ AuthReadPassword
    \/ AuthCheck
    \/ AuthDeniedShutdown
    \/ ReqReadHeader
    \/ ReqVersionShutdown
    \/ ReqParse
    \/ ReqCommandShutdown
    \/ ReqAddrTypeShutdown
    \/ ReqReadAddr
    \/ ReqReadDomain
    \/ ReqReadPort
    \/ HandleCommand
    \/ HandleResolve
    \/ HandleConnect
    \/ HandleReply
    \/ HandleClone
    \/ SpawnDownload
    \/ SpawnUpload
    \/ SessionExit
    \/ HandlerError
    \/ HandlerShutdown
    \/ DownloadRead
    \/ DownloadWrite
    \/ DownloadShutSrc
    \/ DownloadShutDst
    \/ UploadRead
    \/ UploadWrite
    \/ UploadShutSrc
    \/ UploadShutDst
    \/ PeerReset

Spec == Init /\ [][Next]_vars

\* the steps of the session thread (the closure of Merino::serve)
SessionThread ==
    \/ InitReadHeader \/ InitShutdown \/ AuthReadMethod \/ AuthSelect
    \/ AuthNoMethodsShutdown \/ AuthReadHeader \/ AuthReadUsername
    \/ AuthReadPlen \/ AuthReadPassword \/ AuthCheck \/ AuthDeniedShutdown
    \/ ReqReadHeader \/ ReqVersionShutdown \/ ReqParse \/ ReqCommandShutdown
    \/ ReqAddrTypeShutdown \/ ReqReadAddr \/ ReqReadDomain \/ ReqReadPort
    \/ HandleCommand \/ HandleResolve \/ HandleConnect \/ HandleReply
    \/ HandleClone \/ SpawnDownload \/ SpawnUpload \/ SessionExit
    \/ HandlerError \/ HandlerShutdown

\* the steps of the two relay threads
DownloadThread == DownloadRead \/ DownloadWrite \/ DownloadShutSrc \/ DownloadShutDst
UploadThread == UploadRead \/ UploadWrite \/ UploadShutSrc \/ UploadShutDst

\* the sessions followed to their end: a greeting of another version or
\* without an acceptable method, every RFC 1929 request and every request,
\* each cut short anywhere
LiveInit ==
    /\ InitAcceptor
    /\ InitSession
    /\ \/ /\ cin \in Prefixes(BadVersionGreetings \cup {<<5, 1, 1>>, <<5, 0>>})
          /\ auth_methods \in {{NoAuth}, {NoAuth, UserPass}}
          /\ authed_users = {User(<<97>>, <<97>>)}
          /\ host_le = TRUE
       \/ /\ cin \in CredentialClients
          /\ auth_methods \in {{UserPass}, {NoAuth, UserPass}}
          /\ authed_users \in UserTables
          /\ host_le = TRUE
       \/ /\ cin \in RequestClients
          /\ auth_methods = {NoAuth}
          /\ authed_users = {}
          /\ host_le = TRUE

\* every thread that can take a step eventually takes one: the scheduler
\* is fair to each thread, and every blocking call (read, write, connect,
\* resolution) eventually returns data, end-of-file or an error
LiveSpec ==
    /\ LiveInit /\ [][Next]_vars
    /\ WF_vars(SessionThread)
    /\ WF_vars(DownloadThread)
    /\ WF_vars(UploadThread)

\* the accept loop and the outcomes of the sessions it dispatches, for
\* every enabled set and credential table
AcceptInit ==
    /\ InitAcceptor
    /\ InitSession
    /\ cin = <<>>
    /\ auth_methods \in EnabledSets
    /\ authed_users \in UserTables
    /\ host_le = TRUE

AcceptNext ==
    \/ Arrive
    \/ AcceptOk
    \/ AcceptErr
    \/ SpawnSession
    \/ SessionEnds

\* the thread of serve is scheduled and accept returns when a connection
\* waits; nothing is assumed of the sessions, which may block for ever
AcceptSpec ==
    /\ AcceptInit /\ [][AcceptNext]_vars
    /\ WF_vars(AcceptOk)
    /\ WF_vars(SpawnSession)


(***************************************************************************)
(* The wire framing of RFC 1928 / RFC 1929, read off the client's bytes    *)
(* independently of the parser: where each datagram of `cin` ends.         *)
(***************************************************************************)
\* every write_all on the client socket so far, successful or not
Attempted(site) ==
    {out[k] : k \in {j \in 1..Len(out) : out[j].site = site}}
    \cup {failed[k] : k \in {j \in 1..Len(failed) : failed[j].site = site}}

Written(site) == {out[k] : k \in {j \in 1..Len(out) : out[j].site = site}}

\* the METHOD octet the server answered with reached the client
SelectionWritten(m) == Wr("method_selection", <<SOCKS_VERSION, m>>) \in Written("method_selection")

\* the k-th byte the client sends (0 past the end of the stream)
At(k) == IF k >= 1 /\ k <= Len(cin) THEN cin[k] ELSE 0

GreetingEnd == 2 + At(2)

\* the method octets the client offered
OfferedOctets == {cin[k] : k \in {j \in 3..GreetingEnd : j <= Len(cin)}}

EnabledOctets == {AuthCode(m) : m \in auth_methods}

\* the whole greeting is in the stream and has been consumed
GreetingRead == Len(cin) >= 2 /\ Len(cin) >= GreetingEnd /\ rpos >= GreetingEnd

WireUlen == At(GreetingEnd + 2)
WirePlen == At(GreetingEnd + 2 + WireUlen + 1)
CredentialsEnd == GreetingEnd + 2 + WireUlen + 1 + WirePlen
WireUsername == SubSeq(cin, GreetingEnd + 3, GreetingEnd + 2 + WireUlen)
WirePassword == SubSeq(cin, GreetingEnd + 2 + WireUlen + 2, CredentialsEnd)

\* the whole RFC 1929 request is in the stream and has been consumed
CredentialsRead ==
    /\ GreetingRead
    /\ Len(cin) >= GreetingEnd + 2
    /\ Len(cin) >= GreetingEnd + 2 + WireUlen + 1
    /\ Len(cin) >= CredentialsEnd
    /\ rpos >= CredentialsEnd

\* where the SOCKS5 request starts: after the credentials iff the server
\* asked for them
RequestStart ==
    IF Attempted("method_selection") = {Wr("method_selection", <<SOCKS_VERSION, 2>>)}
    THEN CredentialsEnd ELSE GreetingEnd

WireAddrLen ==
    CASE At(RequestStart + 4) = 1 -> 4
      [] At(RequestStart + 4) = 4 -> 16
      [] At(RequestStart + 4) = 3 -> 1 + At(RequestStart + 5)
      [] OTHER -> 0

RequestEnd == RequestStart + 4 + WireAddrLen + 2

\* the whole request is in the stream and has been consumed
RequestRead ==
    /\ GreetingRead
    /\ (RequestStart # GreetingEnd => CredentialsRead)
    /\ Len(cin) >= RequestStart + 5
    /\ Len(cin) >= RequestEnd
    /\ rpos >= RequestEnd

RelayStarted == dl_pc # "idle" \/ ul_pc # "idle"

RelayMoved == upos > 0 \/ t_out # <<>> \/ Written("relay") # {} \/ ul_buf # <<>>

SessionOver == pc \in {"done", "panicked"} /\ dl_pc \in {"idle", "end"} /\ ul_pc \in {"idle", "end"}

RequestPcs == {"req_hdr", "req_ver_shutdown", "req_parse", "req_cmd_shutdown",
               "req_atyp_shutdown", "req_addr", "req_domain", "req_port",
               "hc_match", "hc_resolve", "hc_connect", "hc_reply", "hc_clone",
               "hc_spawn_dl", "hc_spawn_ul"}

(***************************************************************************)
(* C1.  Within one session the phases are strictly ordered: the method     *)
(* selection is written only after the greeting header and all NMETHODS    *)
(* method octets were read; the RFC 1929 status only after the whole       *)
(* RFC 1929 request was read; the upstream connect is attempted only after *)
(* the whole request was read; the SOCKS5 reply is written only after the  *)
(* connect completed; nothing is relayed before the reply was written.     *)
(***************************************************************************)
C1_PhaseOrder ==
    /\ Attempted("method_selection") # {} => GreetingRead /\ mi = At(2)
    /\ Attempted("auth_status") # {} => CredentialsRead
    /\ (connects > 0 \/ pc = "hc_connect") => RequestRead
    /\ Attempted("reply") # {} => connects > 0 /\ t_connected
    /\ (RelayStarted \/ RelayMoved) =>
          /\ Written("reply") # {}
          /\ \A k \in 1..Len(out) : out[k].site = "relay" =>
                \E j \in 1..(k - 1) : out[j].site = "reply"

\* a session that went through every phase: method selection, credentials,
\* request, connect, reply, and relayed bytes in both directions
C1_Witness ==
    /\ Written("method_selection") # {}
    /\ Written("auth_status") # {}
    /\ Written("reply") # {}
    /\ Written("relay") # {}
    /\ t_out # <<>>


(***************************************************************************)
(* C2.  In a session where UserPass was selected and the presented pair is *)
(* not in the credential table, the server answers [0x01, 0x01], shuts     *)
(* down and never attempts an upstream connection: a connect is attempted  *)
(* only in sessions where NoAuth was selected or the credentials matched.  *)
(***************************************************************************)
C2_ConnectOnlyWhenAuthenticated ==
    connects > 0 =>
        \/ SelectionWritten(AuthCode(NoAuth))
        \/ Wr("auth_status", <<1, Success>>) \in Written("auth_status")

(***************************************************************************)
(* C3.  Method selection follows the preference order for every offered    *)
(* list and every enabled set: UserPass if both sides have it, otherwise   *)
(* NoAuth if both sides have it, otherwise 0xFF and the session fails.     *)
(***************************************************************************)
PreferredMethod ==
    IF 2 \in OfferedOctets /\ UserPass \in auth_methods THEN 2
    ELSE IF 0 \in OfferedOctets /\ NoAuth \in auth_methods THEN 0
    ELSE 255

C3_PreferenceOrder ==
    /\ \A w \in Attempted("method_selection") : w.bytes = <<SOCKS_VERSION, PreferredMethod>>
    /\ SelectionWritten(255) => pc \in {"nm_shutdown", "h_error", "h_shutdown", "done"}

(***************************************************************************)
(* C4.  The METHOD octet of the method-selection reply is 0xFF or a method *)
(* that is among the octets the client offered and in the enabled set; an  *)
(* offered 0xFF never makes the server select NoAuth.                      *)
(***************************************************************************)
C4_SelectedWasOffered ==
    \A w \in Attempted("method_selection") :
        \/ w.bytes[2] = 255
        \/ w.bytes[2] \in OfferedOctets /\ w.bytes[2] \in EnabledOctets

(***************************************************************************)
(* C5.  For every (username, password) that is not in the credential       *)
(* table, valid UTF-8 or not, a UserPass session that read the whole       *)
(* RFC 1929 request ends with [0x01, 0x01] as the last bytes written.      *)
(***************************************************************************)
C5_RejectedEndsWithStatus ==
    ( /\ SelectionWritten(AuthCode(UserPass))
      /\ CredentialsRead
      /\ User(WireUsername, WirePassword) \notin authed_users
      /\ SessionOver
      /\ ~cbroken )
    => /\ Len(out) >= 1
       /\ out[Len(out)].bytes = <<1, Failure>>

(***************************************************************************)
(* C6.  Every session either reaches Relay or emits exactly one error      *)
(* reply, except that a session shut down before the method selection      *)
(* emits nothing; and no session performs more than one SOCKS5-level reply *)
(* write.                                                                  *)
(***************************************************************************)
IsErrorReply(w) ==
    \/ w.site = "error"
    \/ w = Wr("method_selection", <<SOCKS_VERSION, 255>>)
    \/ w = Wr("auth_status", <<1, Failure>>)

IsReplyWrite(w) == IsErrorReply(w) \/ w.site = "reply"

C6_OneReply ==
    /\ (pc \in {"done", "panicked"} /\ ~cbroken) =>
          \/ RelayStarted
          \/ Cardinality({k \in 1..Len(out) : IsErrorReply(out[k])}) = 1
          \/ Attempted("method_selection") = {} /\ out = <<>>
    /\ Cardinality({k \in 1..Len(out) : IsReplyWrite(out[k])}) <= 1

(***************************************************************************)
(* C7.  When the greeting offers no method the server can select, the      *)
(* client sees exactly [0x05, 0xFF]: after it the session writes, and      *)
(* attempts to write, nothing more and never reads a request.              *)
(***************************************************************************)
C7_NoAcceptableMethod ==
    ( /\ GreetingRead
      /\ At(1) = SOCKS_VERSION
      /\ PreferredMethod = 255
      /\ pc # "auth_methods" /\ pc # "auth_select"
      /\ ~cbroken )
    => /\ out = <<Wr("method_selection", <<SOCKS_VERSION, 255>>)>>
       /\ failed = <<>>
       /\ pc \notin RequestPcs
       /\ rpos = GreetingEnd

(***************************************************************************)
(* C8.  If the first octet of the greeting is not 0x05, the session shuts  *)
(* the client socket down without writing any byte to the client and runs  *)
(* neither the authentication nor the request phase.                       *)
(***************************************************************************)
C8_BadVersionSilent ==
    (Len(cin) >= 2 /\ At(1) # SOCKS_VERSION) =>
        /\ out = <<>>
        /\ pc \in {"init_hdr", "init_shutdown", "exit", "h_error", "h_shutdown", "done"}
        /\ rpos <= 2 /\ mi = 0 /\ methods = <<>> /\ connects = 0
        /\ Attempted("method_selection") = {} /\ Attempted("auth_status") = {}
        /\ (pc \in {"exit", "done"} => c_shut_rd /\ c_shut_wr)

\* a SOCKS4 greeting was read from a live client and the session has ended
C8_Witness ==
    /\ Len(cin) >= 2 /\ At(1) = 4
    /\ socks_version = 4
    /\ pc = "done"
    /\ ~cbroken
    /\ c_shut_rd /\ c_shut_wr

(***************************************************************************)
(* C9.  If an I/O error occurs while the greeting header or the method     *)
(* octets are read, the session ends without writing any byte: the server  *)
(* never writes to a client whose greeting it has not fully read.          *)
(***************************************************************************)
C9_NoWriteBeforeGreeting ==
    out # <<>> => GreetingRead

(***************************************************************************)
(* C10.  For every well-formed request with CMD 0x02 or 0x03 after a       *)
(* successful negotiation, the server writes [0x05, 0x07] and closes; it   *)
(* never attempts an upstream connection.                                  *)
(***************************************************************************)
C10_CommandNotSupported ==
    ( /\ RequestRead
      /\ At(RequestStart + 1) = SOCKS_VERSION
      /\ At(RequestStart + 2) \in {2, 3}
      /\ At(RequestStart + 4) \in {1, 3, 4}
      /\ pc = "done"
      /\ ~cbroken )
    => /\ Len(out) >= 1
       /\ out[Len(out)].bytes = <<SOCKS_VERSION, CommandNotSupported>>
       /\ connects = 0

(***************************************************************************)
(* C11.  For every request whose ATYP octet is not 0x01, 0x03 or 0x04 the  *)
(* server writes [0x05, 0x08] to the client before it shuts the client     *)
(* socket down, and closes; the REP octet is 0x08, not the generic 0x01.   *)
(***************************************************************************)
\* the 4-byte request header is in the stream and has been consumed
RequestHeaderRead ==
    /\ GreetingRead
    /\ (RequestStart # GreetingEnd => CredentialsRead)
    /\ Len(cin) >= RequestStart + 4
    /\ rpos >= RequestStart + 4

C11_AddrTypeNotSupported ==
    ( /\ RequestHeaderRead
      /\ At(RequestStart + 1) = SOCKS_VERSION
      /\ At(RequestStart + 2) \in {1, 2, 3}
      /\ At(RequestStart + 4) \notin {1, 3, 4}
      /\ pc = "done"
      /\ ~cbroken )
    => /\ Len(out) >= 1
       /\ out[Len(out)] = Wr("error", <<SOCKS_VERSION, AddrTypeNotSupported>>)
       /\ c_shut_rd /\ c_shut_wr

(***************************************************************************)
(* C12.  When the resolution or the upstream connect of a CONNECT request  *)
(* fails, the session writes exactly one two-byte reply [0x05, REP] and    *)
(* then shuts the client socket down; REP is 0x04 if the diagnostic text   *)
(* contains "Host", else 0x03 if it contains "Network", else 0x06 if it    *)
(* contains "ttl", else 0x01, and never 0x00 or 0x05.                      *)
(***************************************************************************)
\* the REP octet the claim prescribes for a diagnostic text
ExpectedRep(d) ==
    IF "Host" \in d THEN 4
    ELSE IF "Network" \in d THEN 3
    ELSE IF "ttl" \in d THEN 6
    ELSE 1

\* a well-formed CONNECT request was read and its resolution or its
\* connect returned an error
ConnectFailed ==
    /\ RequestRead
    /\ At(RequestStart + 1) = SOCKS_VERSION
    /\ At(RequestStart + 2) = 1
    /\ At(RequestStart + 4) \in {1, 3, 4}
    /\ ~t_connected
    /\ err.kind = "Io"
    /\ pc \in {"h_error", "h_shutdown", "done"}

C12_ConnectFailureReply ==
    (ConnectFailed /\ pc = "done" /\ ~cbroken) =>
        /\ Cardinality({k \in 1..Len(out) : out[k].site \in {"error", "reply"}}) = 1
        /\ out[Len(out)] = Wr("error", <<SOCKS_VERSION, ExpectedRep(err.diag)>>)
        /\ out[Len(out)].bytes[2] \notin {Success, ConnectionRefused}
        /\ c_shut_rd /\ c_shut_wr

(***************************************************************************)
(* C13.  In every session in which the success reply was written, exactly  *)
(* one success reply was written, after the upstream connection was        *)
(* established and before any relayed byte, and no error reply is written  *)
(* before or after it, also when a step between the success reply and the  *)
(* start of the relay (duplicating a socket handle) fails.                 *)
(***************************************************************************)
C13_OneSuccessReply ==
    Written("reply") # {} =>
        /\ Cardinality({k \in 1..Len(out) : out[k].site = "reply"}) = 1
        /\ t_connected
        /\ \A k \in 1..Len(out) : out[k].site = "relay" =>
              \E j \in 1..(k - 1) : out[j].site = "reply"
        /\ \A k \in 1..Len(out) : out[k].site # "error"

(***************************************************************************)
(* C14.  On a successful CONNECT the reply written to the client is        *)
(* VER=0x05, REP=0x00, RSV=0x00, ATYP, BND.ADDR, BND.PORT, where BND.ADDR  *)
(* and BND.PORT encode the local endpoint the upstream socket is bound to, *)
(* for every upstream connection.                                          *)
(***************************************************************************)
\* RFC 1928 section 6: the reply that carries the endpoint ep
EncodeReply(rep, ep) ==
    <<5, rep, 0, ep.atyp>> \o ep.ip \o <<ep.port \div 256, ep.port % 256>>

C14_ReplyCarriesBoundEndpoint ==
    \A w \in Attempted("reply") : w.bytes = EncodeReply(0, t_local)

(***************************************************************************)
(* C15.  In the relay each direction performs only its own half-closes:    *)
(* the upload direction, when it ends, shuts the client socket down for    *)
(* reading and the upstream socket for writing and nothing else; the       *)
(* download direction shuts the upstream socket down for reading and the   *)
(* client socket for writing and nothing else.  In every interleaving a    *)
(* direction that still copies finds its two halves open, whatever the     *)
(* other direction did, and once both have ended both sockets are shut     *)
(* down for reading and writing.                                           *)
(***************************************************************************)
C15_OwnHalfCloses ==
    /\ [](RelayStarted =>
            /\ dl_pc \in {"copy", "write"} => ~t_shut_rd /\ ~c_shut_wr
            /\ ul_pc \in {"copy", "write"} => ~c_shut_rd /\ ~t_shut_wr
            /\ (dl_pc = "end" /\ ul_pc = "end") =>
                  c_shut_rd /\ c_shut_wr /\ t_shut_rd /\ t_shut_wr)
    /\ [][ /\ ul_pc' # ul_pc =>
                /\ c_shut_wr' = c_shut_wr /\ t_shut_rd' = t_shut_rd
                /\ dl_pc' = dl_pc /\ dl_buf' = dl_buf /\ upos' = upos /\ out' = out
           /\ dl_pc' # dl_pc =>
                /\ c_shut_rd' = c_shut_rd /\ t_shut_wr' = t_shut_wr
                /\ ul_pc' = ul_pc /\ ul_buf' = ul_buf /\ rpos' = rpos /\ t_out' = t_out
           /\ (ul_pc # "end" /\ ul_pc' = "end") => c_shut_rd' /\ t_shut_wr'
           /\ (dl_pc # "end" /\ dl_pc' = "end") => t_shut_rd' /\ c_shut_wr'
         ]_vars

\* the upload direction has ended after it delivered a byte, while the
\* download direction holds a byte in flight for a live client
C15_Witness ==
    /\ ul_pc = "end"
    /\ t_out # <<>>
    /\ dl_pc = "write"
    /\ dl_buf # <<>>
    /\ ~cbroken

(***************************************************************************)
(* C16.  Every session eventually reaches Closed, along every path (bad    *)
(* version, no acceptable method, rejected credentials, unsupported        *)
(* command or address type, connect failure, I/O error, relay after both   *)
(* peers closed), provided every pending read eventually returns; in       *)
(* Closed the client socket is torn down for reading and writing and the   *)
(* upstream socket, if one was opened, is closed.                          *)
(***************************************************************************)
\* every thread of the session has ended and every handle of the two
\* sockets was dropped, which closes them
Closed ==
    /\ SessionOver
    /\ c_handles = 0
    /\ t_handles = 0

C16_EventuallyClosed == <>[]Closed

\* a session that relayed in both directions and is closed
C16_Witness ==
    /\ Closed
    /\ Written("relay") # {}
    /\ t_out # <<>>
    /\ dl_pc = "end" /\ ul_pc = "end"

(***************************************************************************)
(* C17.  The accept loop never ends because of an accept error or of the   *)
(* outcome of a session: after a failed accept and after a session failed, *)
(* ended or panicked, the loop is still at accept() and every connection   *)
(* that reached the listener and was not lost to a failed accept is        *)
(* eventually dispatched to a session of its own, with its own copy of the *)
(* credential table and the enabled set, also while earlier sessions are   *)
(* blocked for ever.                                                       *)
(***************************************************************************)
C17_AcceptLoopNeverStops ==
    /\ [](acc_pc \in {"accept", "spawn"})
    /\ [](arrived = backlog + aborted + Len(sess)
                      + (IF acc_pc = "spawn" THEN 1 ELSE 0))
    /\ [](\A i \in 1..Len(sess) :
             /\ sess[i].authed_users = authed_users
             /\ sess[i].auth_methods = auth_methods)
    /\ [][ /\ Len(sess') >= Len(sess)
           /\ \A i \in 1..Len(sess) :
                 sess'[i] # sess[i] =>
                    /\ sess[i].st = "running"
                    /\ acc_pc' = acc_pc /\ backlog' = backlog
                    /\ \A j \in 1..Len(sess) : j # i => sess'[j] = sess[j]
         ]_vars
    /\ <>[](backlog = 0 /\ acc_pc = "accept")

\* an accept failed, the first session is still blocked, the second one
\* panicked, the third one ended in an error, and the loop is at accept()
C17_Witness ==
    /\ accept_errs > 0
    /\ Len(sess) >= 3
    /\ sess[1].st = "running"
    /\ sess[2].st = "panicked"
    /\ sess[3].st = "error"
    /\ acc_pc = "accept"

(***************************************************************************)
(* C18.  For a request with ATYP V4 or V6 the socket address the server    *)
(* resolved, and connects to, has the address octets of the wire in wire   *)
(* order (each 16-bit group of a V6 address being its two octets in        *)
(* network order, whatever the host) and the port of the wire.             *)
(***************************************************************************)
WireAddress == [k \in 1..WireAddrLen |-> At(RequestStart + 4 + k)]

WirePort == 256 * At(RequestEnd - 1) + At(RequestEnd)

C18_ResolvedIsWireAddress ==
    ( /\ RequestRead
      /\ At(RequestStart + 4) \in {1, 4}
      /\ sock_addr # <<>> )
    => /\ Len(sock_addr) = 1
       /\ sock_addr[1].ip = WireAddress
       /\ sock_addr[1].port = WirePort

(***************************************************************************)
(* C19.  An RFC 1929 request with ULEN = 0 or PLEN = 0 is answered with    *)
(* [0x01, 0x01] as the last bytes written and the session closes; it is    *)
(* never answered with [0x01, 0x00], whatever the credential table.        *)
(***************************************************************************)
EmptyCredentialRead ==
    /\ SelectionWritten(AuthCode(UserPass))
    /\ CredentialsRead
    /\ (WireUlen = 0 \/ WirePlen = 0)

C19_EmptyCredentialFails ==
    EmptyCredentialRead =>
        /\ Wr("auth_status", <<1, Success>>) \notin Attempted("auth_status")
        /\ (SessionOver /\ ~cbroken) =>
              /\ Len(out) >= 1
              /\ out[Len(out)] = Wr("auth_status", <<1, Failure>>)
              /\ c_shut_rd /\ c_shut_wr

(***************************************************************************)
(* C20.  The request parser consumes exactly the framed bytes and yields   *)
(* the framed values: after the 4-byte header, 4 octets for V4, a length   *)
(* octet L and L octets for Domain (L up to 255), 16 octets for V6, then 2 *)
(* port octets, the port being 256 * first + second; it consumes nothing   *)
(* beyond DST.PORT, so the bytes the client sends after the request are    *)
(* the bytes the relay hands to the upstream, in order.                    *)
(***************************************************************************)
\* the octets of DST.ADDR without the length octet of a domain
WireDstAddr ==
    IF At(RequestStart + 4) = 3
    THEN [k \in 1..At(RequestStart + 5) |-> At(RequestStart + 5 + k)]
    ELSE WireAddress

\* from_stream returned Ok and the session has not left handle_client
DecodedPcs == {"hc_match", "hc_resolve", "hc_connect", "hc_reply", "hc_clone",
               "hc_spawn_dl", "hc_spawn_ul"}

\* the chunk the upload thread has read and not yet written
UploadInFlight == IF ul_pc = "write" THEN ul_buf ELSE <<>>

C20_RequestFraming ==
    /\ pc \in {"req_addr", "req_domain", "req_port"} =>
          /\ At(RequestStart + 4) \in {1, 3, 4}
          /\ addr_type = CASE At(RequestStart + 4) = 1 -> "V4"
                           [] At(RequestStart + 4) = 3 -> "Domain"
                           [] At(RequestStart + 4) = 4 -> "V6"
    /\ pc = "req_addr" => rpos = RequestStart + 4
    /\ pc = "req_domain" =>
          /\ rpos = RequestStart + 5
          /\ dlen = At(RequestStart + 5)
    /\ pc = "req_port" =>
          /\ rpos = RequestEnd - 2
          /\ addr = WireDstAddr
    /\ pc \in DecodedPcs =>
          /\ Len(cin) >= RequestEnd
          /\ rpos = RequestEnd
          /\ addr = WireDstAddr
          /\ port = WirePort
    /\ pc \in RequestPcs => rpos <= RequestEnd
    /\ ul_pc # "idle" =>
          /\ rpos >= RequestEnd
          /\ t_out \o UploadInFlight = SubSeq(cin, RequestEnd + 1, rpos)

\* the domain of 255 octets was decoded and the byte after the request
\* reached the upstream
C20_Witness ==
    /\ addr_type = "Domain"
    /\ Len(addr) = 255
    /\ port = 80
    /\ t_out = <<16>>

(***************************************************************************)
(* C21.  A request whose VER octet is not 0x05 never leads to an upstream  *)
(* connection attempt: once the header with the bad version was read, no   *)
(* request is handed to handle_client, no address is resolved and no       *)
(* connect is made, whatever bytes follow the header in the stream.        *)
(***************************************************************************)
BadVersionRequestRead ==
    /\ RequestHeaderRead
    /\ At(RequestStart + 1) # SOCKS_VERSION

C21_BadVersionNeverConnects ==
    BadVersionRequestRead =>
        /\ pc \notin DecodedPcs
        /\ sock_addr = <<>>
        /\ connects = 0
        /\ ~t_connected

(***************************************************************************)
(* C22.  During relay, for each direction, the bytes written to the        *)
(* destination socket are a prefix of the bytes read from the source       *)
(* socket after the handshake: the same bytes in the same order, nothing   *)
(* added, dropped, duplicated or crossed; and nothing but client bytes     *)
(* that follow the request is ever written to the upstream socket.         *)
(***************************************************************************)
IsPrefix(a, b) == Len(a) <= Len(b) /\ a = SubSeq(b, 1, Len(a))

RECURSIVE BytesOf(_)
BytesOf(ws) == IF ws = <<>> THEN <<>> ELSE ws[1].bytes \o BytesOf(Tail(ws))

\* what the upload direction has read from the client socket
UploadSourceRead == SubSeq(cin, RequestEnd + 1, rpos)

\* what the download direction has read from the upstream socket
DownloadSourceRead == SubSeq(uin, 1, upos)

\* the writes on the client socket that follow the success reply
AfterReply ==
    LET at == {k \in 1..Len(out) : out[k].site = "reply"}
    IN  IF at = {} THEN <<>>
        ELSE SubSeq(out, (CHOOSE k \in at : TRUE) + 1, Len(out))

====
